---------------------------- MODULE Spec2Model ----------------------------
(***************************************************************************)
(* Model of utils/bbox2target_np.py (Pytorch_Simple_SSD): box conversion,  *)
(* IoU, prior matching, decoding, non-maximum suppression and detection    *)
(* post-processing.                                                        *)
(*                                                                         *)
(* Conventions.                                                            *)
(*  - Arrays are sequences, so index i of the Python code is index i+1     *)
(*    here; class ids and labels keep their Python values.                 *)
(*  - Box coordinates and scores of the inputs are integers.  Values the   *)
(*    code obtains by floating-point division are kept exactly, as records *)
(*    [k, n, d]: k = "fin" is the rational n/d in lowest terms, k = "nan"  *)
(*    is IEEE NaN (0/0), k = "inf" is +-Infinity (n is the sign), and      *)
(*    k = "log" is ln(n/d)/0.2.  Rounding is not modelled.                 *)
(*  - Every function is pure: the initial state holds a function and its   *)
(*    arguments, and the call is one action that runs the whole function   *)
(*    and records what it returned or raised.                              *)
(***************************************************************************)
EXTENDS Integers, Sequences, FiniteSets, TLC

VARIABLES pc, fn, args, ret, exc

vars == <<pc, fn, args, ret, exc>>

(***************************************************************************)
(* Bounds of the model.                                                    *)
(***************************************************************************)
MaxBoxes == 3      \* boxes handed to nms_np
MaxGT == 2         \* ground truths handed to match_np (rows of box_a)
MaxPriors == 2     \* priors per image (columns of box_b)
MaxBatch == 2      \* images in a batch

(***************************************************************************)
(* Floating-point values.                                                  *)
(***************************************************************************)
Abs(x) == IF x < 0 THEN -x ELSE x

Min2(a, b) == IF a < b THEN a ELSE b

Max2(a, b) == IF a > b THEN a ELSE b

RECURSIVE GCD(_, _)
GCD(a, b) == IF b = 0 THEN a ELSE GCD(b, a % b)

NaN == [k |-> "nan", n |-> 0, d |-> 0]

PosInf == [k |-> "inf", n |-> 1, d |-> 0]

NegInf == [k |-> "inf", n |-> -1, d |-> 0]

\* n/d, d > 0, in lowest terms
Fin(n, d) ==
  LET g == GCD(Abs(n), d)
  IN [k |-> "fin", n |-> n \div g, d |-> d \div g]

FInt(n) == [k |-> "fin", n |-> n, d |-> 1]

\* numpy's true division of two numbers: x/0 is +-inf, 0/0 is nan (a
\* RuntimeWarning, no exception)
FDiv(n, d) ==
  IF d = 0 THEN (IF n = 0 THEN NaN ELSE IF n > 0 THEN PosInf ELSE NegInf)
  ELSE IF d < 0 THEN Fin(-n, -d)
  ELSE Fin(n, d)

IsNaN(x) == x.k = "nan"

\* x < y on floats: every comparison with NaN is False
FLess(x, y) ==
  IF IsNaN(x) \/ IsNaN(y) THEN FALSE
  ELSE IF x.k = "inf" /\ y.k = "inf" THEN x.n < y.n
  ELSE x.n * y.d < y.n * x.d

FAdd(x, y) == Fin(x.n * y.d + y.n * x.d, x.d * y.d)

FSub(x, y) == Fin(x.n * y.d - y.n * x.d, x.d * y.d)

FMul(x, y) == Fin(x.n * y.n, x.d * y.d)

\* np.log(x) / 0.2 for x >= 0, kept symbolic: log is injective, so two
\* results are equal exactly when their arguments are
FLog5(x) ==
  IF IsNaN(x) THEN NaN
  ELSE IF x.k = "inf" THEN (IF x.n > 0 THEN PosInf ELSE NaN)
  ELSE IF x.n < 0 THEN NaN
  ELSE IF x.n = 0 THEN NegInf
  ELSE IF x.n = x.d THEN FInt(0)
  ELSE [k |-> "log", n |-> x.n, d |-> x.d]

(***************************************************************************)
(* Array helpers.                                                          *)
(***************************************************************************)
Range(s) == {s[i] : i \in 1..Len(s)}

\* the sequence s itself, as a tuple whose elements are computed once
Array(s) == SubSeq(s, 1, Len(s))

\* s[mask]: boolean-mask indexing
BoolIndex(s, mask) ==
  LET F[n \in 0..Len(s)] ==
        IF n = 0 THEN <<>>
        ELSE IF mask[n] THEN Append(F[n - 1], s[n]) ELSE F[n - 1]
  IN F[Len(s)]

\* s[idx]: integer-array indexing
TakeIdx(s, idx) == Array([j \in 1..Len(idx) |-> s[idx[j]]])

\* s[::-1]
Reverse(s) == Array([j \in 1..Len(s) |-> s[Len(s) + 1 - j]])

Perms(n) == {p \in [1..n -> 1..n] : \A i, j \in 1..n : p[i] = p[j] => i = j}

\* np.argmax over floats: the first NaN if there is one, else the first
\* maximum
ArgMax(s) ==
  IF \E i \in 1..Len(s) : IsNaN(s[i])
  THEN CHOOSE i \in 1..Len(s) :
         IsNaN(s[i]) /\ \A j \in 1..(i - 1) : ~IsNaN(s[j])
  ELSE CHOOSE i \in 1..Len(s) :
         /\ \A j \in 1..Len(s) : ~FLess(s[i], s[j])
         /\ \A j \in 1..(i - 1) : FLess(s[j], s[i])

\* np.amax over floats: NaN propagates
AMax(s) == s[ArgMax(s)]

(***************************************************************************)
(* Box conversion and IoU.                                                 *)
(***************************************************************************)
\* the sizes of the priors used here are even, so wh / 2 is an integer
xywh_to_xyxy_np(boxes) ==
  Array([i \in 1..Len(boxes) |->
     <<boxes[i][1] - boxes[i][3] \div 2, boxes[i][2] - boxes[i][4] \div 2,
       boxes[i][1] + boxes[i][3] \div 2, boxes[i][2] + boxes[i][4] \div 2>>])

Area(b) == (b[3] - b[1]) * (b[4] - b[2])

\* np.clip(max_xy - min_xy, a_min=0), then the product of the two sides
Inter(a, b) ==
  Max2(Min2(a[3], b[3]) - Max2(a[1], b[1]), 0)
    * Max2(Min2(a[4], b[4]) - Max2(a[2], b[2]), 0)

IoU_np(box_a, box_b) ==
  Array([i \in 1..Len(box_a) |->
     Array([j \in 1..Len(box_b) |->
        LET inter == Inter(box_a[i], box_b[j])
            union == Area(box_a[i]) + Area(box_b[j]) - inter
        IN FDiv(inter, union)])])

(***************************************************************************)
(* Non-maximum suppression.                                                *)
(***************************************************************************)
\* the results np.argsort(scores) can give: any permutation that sorts
\* the scores ascending (the default sort is not stable)
ArgSorts(scores) ==
  {p \in Perms(Len(scores)) :
     \A j \in 1..(Len(scores) - 1) : scores[p[j]] <= scores[p[j + 1]]}

\* one-to-many IoU of box i against the remaining candidates
NmsIoU(boxes, i, rest) ==
  Array([j \in 1..Len(rest) |->
     LET inter == Inter(boxes[i], boxes[rest[j]])
         union == (Area(boxes[rest[j]]) - inter) + Area(boxes[i])
     IN FDiv(inter, union)])

\* variant of NmsKeepMask: IoU <= overlap, as the comment above line 160 of
\* the source words it
NmsKeepMaskLe(IoU, overlap) ==
  Array([j \in 1..Len(IoU) |-> ~IsNaN(IoU[j]) /\ ~FLess(overlap, IoU[j])])

\* IoU < overlap: the candidates that stay in the pool
NmsKeepMask(IoU, overlap) ==
  Array([j \in 1..Len(IoU) |-> FLess(IoU[j], overlap)])

\* the while loop: the kept indices
RECURSIVE NmsLoop(_, _, _, _)
NmsLoop(boxes, overlap, argsort_prob, keep) ==
  LET i == argsort_prob[Len(argsort_prob)]
      keep1 == Append(keep, i)
  IN IF Len(argsort_prob) = 1 THEN keep1
     ELSE LET rest == SubSeq(argsort_prob, 1, Len(argsort_prob) - 1)
              IoU == NmsIoU(boxes, i, rest)
              left == BoolIndex(rest, NmsKeepMask(IoU, overlap))
          IN IF Len(left) = 0 THEN keep1
             ELSE NmsLoop(boxes, overlap, left, keep1)

\* argsort is the value np.argsort(scores) returned
nms_np(boxes, scores, overlap, top_k, argsort) ==
  IF Len(boxes) <= 1
  THEN [boxes |-> boxes, scores |-> scores, count |-> Len(boxes)]
  ELSE LET keep == NmsLoop(boxes, overlap, Reverse(argsort), <<>>)
       IN [boxes |-> TakeIdx(boxes, keep), scores |-> TakeIdx(scores, keep),
           count |-> Len(keep)]

(***************************************************************************)
(* Matching ground truths to priors.                                       *)
(***************************************************************************)
\* variant of IndexAssign: a repeated index keeps the first value written
IndexAssignFirst(dst, idx, vals) ==
  Array([p \in 1..Len(dst) |->
     IF \E k \in 1..Len(idx) : idx[k] = p
     THEN vals[CHOOSE k \in 1..Len(idx) :
                 idx[k] = p /\ \A m \in 1..Len(idx) : idx[m] = p => m >= k]
     ELSE dst[p]])

\* dst[idx] = vals with an integer index array: numpy makes the assignments
\* in order, so a repeated index keeps the last value written to it
IndexAssign(dst, idx, vals) ==
  Array([p \in 1..Len(dst) |->
     IF \E k \in 1..Len(idx) : idx[k] = p
     THEN vals[CHOOSE k \in 1..Len(idx) :
                 idx[k] = p /\ \A m \in 1..Len(idx) : idx[m] = p => m <= k]
     ELSE dst[p]])

\* variant of BackgroundMask: best_gt_overlap <= pos_threshold
BackgroundMaskLe(best_gt_overlap, pos_threshold) ==
  Array([p \in 1..Len(best_gt_overlap) |->
     ~IsNaN(best_gt_overlap[p]) /\ ~FLess(pos_threshold, best_gt_overlap[p])])

\* best_gt_overlap < pos_threshold: the priors labelled background
BackgroundMask(best_gt_overlap, pos_threshold) ==
  Array([p \in 1..Len(best_gt_overlap) |-> FLess(best_gt_overlap[p], pos_threshold)])

\* column p of a K x P matrix
Column(m, p) == Array([k \in 1..Len(m) |-> m[k][p]])

\* the regression target of one prior (centre form) for its matched box
Encode(match, prior) ==
  <<FDiv(5 * (match[1] + match[3] - 2 * prior[1]), prior[3]),
    FDiv(5 * (match[2] + match[4] - 2 * prior[2]), prior[4]),
    FLog5(FDiv(match[3] - match[1], prior[3])),
    FLog5(FDiv(match[4] - match[2], prior[4]))>>

\* ground-truth index k of the code is k here (index k-1 in Python); the
\* record also carries the locals best_gt_idx and matches at the return
match_np(pos_threshold, ground_truths, priors_boxes, labels) ==
  LET K == Len(ground_truths)
      P == Len(priors_boxes)
      overlaps == IoU_np(ground_truths, xywh_to_xyxy_np(priors_boxes))
  IN IF K = 0
     THEN \* np.amax over an axis of length 0
          [raised |-> "ValueError"]
     ELSE
       LET best_prior_idx == Array([k \in 1..K |-> ArgMax(overlaps[k])])
           best_gt_overlap0 == Array([p \in 1..P |-> AMax(Column(overlaps, p))])
           best_gt_idx0 == Array([p \in 1..P |-> ArgMax(Column(overlaps, p))])
           best_gt_overlap ==
             IndexAssign(best_gt_overlap0, best_prior_idx, Array([k \in 1..K |-> FInt(2)]))
           best_gt_idx ==
             IndexAssign(best_gt_idx0, best_prior_idx, Array([k \in 1..K |-> k]))
           matches == TakeIdx(ground_truths, best_gt_idx)
           bg == BackgroundMask(best_gt_overlap, pos_threshold)
           cls == Array([p \in 1..P |-> IF bg[p] THEN 0 ELSE labels[best_gt_idx[p]] + 1])
           reg == Array([p \in 1..P |-> Encode(matches[p], priors_boxes[p])])
       IN [raised |-> "none", reg |-> reg, cls |-> cls,
           best_gt_idx |-> best_gt_idx, matches |-> matches]

(***************************************************************************)
(* Decoding.  loc holds floats: rationals, and ln(n/d)/0.2 for the size    *)
(* terms, so that exp(loc * 0.2) is the rational n/d.                      *)
(***************************************************************************)
\* np.exp(x * 0.2) for x = 0 and x = ln(n/d)/0.2
FExp02(x) == IF x.k = "log" THEN Fin(x.n, x.d) ELSE FInt(1)

\* priors[:, :2] + loc[:, :2] * 0.1 * priors[:, 2:]
Centres(loc, priors) ==
  Array([p \in 1..Len(priors) |->
     <<FAdd(FInt(priors[p][1]), FMul(FMul(loc[p][1], Fin(1, 10)), FInt(priors[p][3]))),
       FAdd(FInt(priors[p][2]), FMul(FMul(loc[p][2], Fin(1, 10)), FInt(priors[p][4])))>>])

\* priors[:, 2:] * np.exp(loc[:, 2:] * 0.2)
Sizes(loc, priors) ==
  Array([p \in 1..Len(priors) |->
     <<FMul(FInt(priors[p][3]), FExp02(loc[p][3])),
       FMul(FInt(priors[p][4]), FExp02(loc[p][4]))>>])

\* row[:2] -= row[2:] / 2, then row[2:] += row[:2], on a row (cx, cy, w, h)
CornerRow(row) ==
  LET xmin == FSub(row[1], FMul(row[3], Fin(1, 2)))
      ymin == FSub(row[2], FMul(row[4], Fin(1, 2)))
  IN <<xmin, ymin, FAdd(row[3], xmin), FAdd(row[4], ymin)>>

decode_np(loc, priors) ==
  LET c == Centres(loc, priors)
      s == Sizes(loc, priors)
      \* concatenated along axis 1 of a 2-D array: the columns are joined
      boxes == Array([p \in 1..Len(priors) |-> c[p] \o s[p]])
  IN Array([p \in 1..Len(priors) |-> CornerRow(boxes[p])])

\* numpy's rule for an in-place operation: an operand axis of length src
\* fits an output axis of length dst
Broadcastable(src, dst) == src = dst \/ src = 1

\* loc and priors are [B, P, 4] with B, P >= 1
decode_batch_np(loc, priors) ==
  LET c == Array([b \in 1..Len(priors) |-> Centres(loc[b], priors[b])])
      s == Array([b \in 1..Len(priors) |-> Sizes(loc[b], priors[b])])
      \* concatenated along axis 1 of a 3-D array: the rows of the sizes
      \* follow the rows of the centres, [B, 2P, 2]
      boxes == Array([b \in 1..Len(priors) |-> c[b] \o s[b]])
      ncols == Len(boxes[1][1])
      lo == Min2(2, ncols)      \* columns of boxes[:, :, :2]
      hi == ncols - lo          \* columns of boxes[:, :, 2:]
  IN IF ~Broadcastable(hi, lo)
     THEN \* boxes[:, :, :2] -= boxes[:, :, 2:] / 2
          [raised |-> "ValueError"]
     ELSE [raised |-> "none",
           boxes |-> Array([b \in 1..Len(boxes) |->
                       Array([r \in 1..Len(boxes[b]) |-> CornerRow(boxes[b][r])])])]

(***************************************************************************)
(* Detection post-processing.  An entry of the result is                   *)
(* [none |-> TRUE, rows |-> <<>>] for None, and otherwise carries the rows *)
(* <<xmin, ymin, xmax, ymax, prob, class>> of the stacked array.           *)
(***************************************************************************)
\* np.amax(row)
MaxProb(row) == CHOOSE v \in Range(row) : \A w \in Range(row) : w <= v

\* np.argmax(row): the class (from 0) of the first maximum
ArgMaxProb(row) ==
  (CHOOSE c \in 1..Len(row) :
     row[c] = MaxProb(row) /\ \A e \in 1..(c - 1) : row[e] # MaxProb(row)) - 1

\* variant of ProbFilter: the test argmax_probs[i] > 0 left out
ProbFilterNoBackgroundTest(max_probs, argmax_probs, cls_thresh) ==
  Array([p \in 1..Len(max_probs) |-> max_probs[p] > cls_thresh])

\* np.logical_and(max_probs[i] > cls_thresh, argmax_probs[i] > 0)
ProbFilter(max_probs, argmax_probs, cls_thresh) ==
  Array([p \in 1..Len(max_probs) |->
     max_probs[p] > cls_thresh /\ argmax_probs[p] > 0])

\* np.clip(v, 0.0, 1.0)
Clip01(v) == Max2(0, Min2(v, 1))

\* np.hstack([np.clip(nms_boxes, 0.0, 1.0), nms_probs[:, None],
\*            np.ones([count, 1]) * (c - 1)])
ClassRows(r, c) ==
  Array([j \in 1..r.count |->
     <<Clip01(r.boxes[j][1]), Clip01(r.boxes[j][2]), Clip01(r.boxes[j][3]),
       Clip01(r.boxes[j][4]), r.scores[j], c - 1>>])

\* variant of ClassFilter: the class test left out, every surviving prior
\* goes into every class's NMS
ClassFilterAll(clses, c) ==
  Array([p \in 1..Len(clses) |-> TRUE])

\* cls_filter = clses == c
ClassFilter(clses, c) ==
  Array([p \in 1..Len(clses) |-> clses[p] = c])

\* the body of the loop over the images: the entries image i can get (one
\* for each order np.argsort may give to equal scores), or "ValueError"
DetectImage(boxes_i, probs_i, num_classes, top_k, cls_thresh, nms_thresh) ==
  LET max_probs == Array([p \in 1..Len(probs_i) |-> MaxProb(probs_i[p])])
      argmax_probs == Array([p \in 1..Len(probs_i) |-> ArgMaxProb(probs_i[p])])
      prob_filter == ProbFilter(max_probs, argmax_probs, cls_thresh)
  IN IF \A p \in 1..Len(prob_filter) : ~prob_filter[p]
     THEN {[raised |-> "none", none |-> TRUE, rows |-> <<>>]}
     ELSE
       LET boxes == BoolIndex(boxes_i, prob_filter)
           clses == BoolIndex(argmax_probs, prob_filter)
           probs == BoolIndex(max_probs, prob_filter)
           \* the rows classes c .. num_classes-1 can append to result
           Rest[c \in 1..num_classes] ==
             IF c = num_classes THEN {<<>>}
             ELSE LET cls_filter == ClassFilter(clses, c)
                      cboxes == BoolIndex(boxes, cls_filter)
                      cprobs == BoolIndex(probs, cls_filter)
                  IN IF Len(cboxes) < 1 THEN Rest[c + 1]
                     ELSE {ClassRows(nms_np(cboxes, cprobs, nms_thresh, top_k, a), c) \o rest :
                             a \in ArgSorts(cprobs), rest \in Rest[c + 1]}
       IN {IF rows = <<>>
           THEN \* np.vstack of an empty list
                [raised |-> "ValueError", none |-> FALSE, rows |-> <<>>]
           ELSE [raised |-> "none", none |-> FALSE, rows |-> rows] :
             rows \in Rest[1]}

\* the outcomes of a call: what it raised, and the list it returned
detect_np(boxes_pred, probs_pred, top_k, cls_thresh, nms_thresh) ==
  LET batch_size == Len(probs_pred)
      num_classes == IF batch_size = 0 THEN 1 ELSE Len(probs_pred[1][1])
      Results[i \in 0..batch_size] ==
        IF i = 0 THEN {[raised |-> "none", batch_result |-> <<>>]}
        ELSE {IF done.raised # "none" THEN done
              ELSE IF e.raised # "none"
                   THEN [raised |-> e.raised, batch_result |-> <<>>]
                   ELSE [raised |-> "none",
                         batch_result |->
                           Append(done.batch_result, [none |-> e.none, rows |-> e.rows])] :
                done \in Results[i - 1],
                e \in DetectImage(boxes_pred[i], probs_pred[i], num_classes,
                                  top_k, cls_thresh, nms_thresh)}
  IN Results[batch_size]

(***************************************************************************)
(* Inputs.                                                                 *)
(***************************************************************************)
\* corner-form boxes: overlapping, nested, disjoint, of zero area, and
\* reaching outside [0,1]
SampleBoxes ==
  {<<0, 0, 2, 2>>, <<0, 0, 2, 3>>, <<1, 1, 3, 3>>, <<3, 3, 3, 3>>}

SampleScores == {70, 80, 90}

\* IoU thresholds 0, 1/2 and 1
SampleThresholds == {FInt(0), Fin(1, 2), FInt(1)}

\* top_k: 1 and the default of nms_np
DefaultTopK == 200

TopKs == {1, DefaultTopK}

\* ground truths (corner-form box, label) and priors (centre form) on a grid
\* where 2 stands for the full image side; the box <<2, 2, 2, 2>> and the
\* prior <<2, 2, 0, 0>> are the same point
SampleObjects ==
  {[box |-> <<0, 0, 2, 2>>, label |-> 0], [box |-> <<0, 0, 4, 2>>, label |-> 1],
   [box |-> <<2, 0, 4, 4>>, label |-> 0], [box |-> <<2, 2, 2, 2>>, label |-> 1]}

SamplePriors ==
  {<<1, 1, 2, 2>>, <<2, 2, 4, 4>>, <<3, 1, 2, 2>>, <<2, 2, 0, 0>>}

\* a prior with the offsets predicted for it: none, and the encodings of two
\* boxes
SampleCells ==
  {[prior |-> <<1, 1, 2, 2>>, loc |-> <<FInt(0), FInt(0), FInt(0), FInt(0)>>],
   [prior |-> <<2, 2, 4, 4>>, loc |-> Encode(<<0, 0, 2, 2>>, <<2, 2, 4, 4>>)],
   [prior |-> <<3, 1, 2, 2>>, loc |-> Encode(<<0, 0, 4, 2>>, <<3, 1, 2, 2>>)]}

\* the prediction of one prior: its decoded box and its probabilities (in
\* percent) for background and two classes.  Two overlapping boxes of
\* class 1, one of class 2 on top of them, and one whose first maximum is
\* the background
SamplePreds ==
  <<[box |-> <<0, 0, 2, 2>>, probs |-> <<10, 80, 10>>],
    [box |-> <<0, 0, 2, 3>>, probs |-> <<20, 60, 20>>],
    [box |-> <<-1, 0, 2, 2>>, probs |-> <<15, 15, 70>>],
    [box |-> <<1, 1, 3, 3>>, probs |-> <<45, 45, 10>>]>>

ClsThresholds == {40, 65}

NonIncreasing(s) == \A j \in 1..(Len(s) - 1) : s[j] >= s[j + 1]

(***************************************************************************)
(* Calls.  The functions are pure, so a behaviour is one call: the initial *)
(* state holds the function and its arguments, the call runs the whole     *)
(* function and records what it returned or raised.                        *)
(***************************************************************************)
InitCall(f) ==
  /\ pc = "call"
  /\ fn = f
  /\ ret = <<>>
  /\ exc = "none"

InitIoU ==
  /\ InitCall("IoU_np")
  /\ \E a \in 0..MaxGT, b \in 0..MaxPriors :
       \E box_a \in [1..a -> SampleBoxes], box_b \in [1..b -> SampleBoxes] :
         args = [box_a |-> box_a, box_b |-> box_b]

InitMatch ==
  /\ InitCall("match_np")
  /\ \E K \in 0..MaxGT, P \in 1..MaxPriors :
       \E objects \in [1..K -> SampleObjects], priors_boxes \in [1..P -> SamplePriors] :
         \E pos_threshold \in SampleThresholds :
           args = [pos_threshold |-> pos_threshold,
                   ground_truths |-> [k \in 1..K |-> objects[k].box],
                   priors_boxes |-> priors_boxes,
                   labels |-> [k \in 1..K |-> objects[k].label]]

\* nms_np's result depends on the (box, score) pairs and not on their
\* positions, so the pairs are listed by descending score
InitNms ==
  /\ InitCall("nms_np")
  /\ \E n \in 0..MaxBoxes :
       \E scores \in {s \in [1..n -> SampleScores] : NonIncreasing(s)} :
         \E boxes \in [1..n -> SampleBoxes] :
           \E overlap \in SampleThresholds, top_k \in TopKs :
             args = [boxes |-> boxes, scores |-> scores,
                     overlap |-> overlap, top_k |-> top_k]

InitDecode ==
  /\ InitCall("decode_np")
  /\ \E P \in 1..MaxPriors :
       \E cells \in [1..P -> SampleCells] :
         args = [loc |-> [p \in 1..P |-> cells[p].loc],
                 priors |-> [p \in 1..P |-> cells[p].prior]]

InitDecodeBatch ==
  /\ InitCall("decode_batch_np")
  /\ \E B \in 1..MaxBatch, P \in 1..MaxPriors :
       \E cells \in [1..B -> [1..P -> SampleCells]] :
         args = [loc |-> [b \in 1..B |-> [p \in 1..P |-> cells[b][p].loc]],
                 priors |-> [b \in 1..B |-> [p \in 1..P |-> cells[b][p].prior]]]

\* an image's entry depends on the predictions of its priors and not on
\* their positions, so each image lists them in one order
InitDetect ==
  /\ InitCall("detect_np")
  /\ \E B \in 0..MaxBatch, P \in 1..MaxPriors :
       \E pick \in [1..B -> {s \in [1..P -> 1..Len(SamplePreds)] : NonIncreasing(s)}] :
         \E cls_thresh \in ClsThresholds :
           args = [boxes_pred |-> [b \in 1..B |-> [p \in 1..P |-> SamplePreds[pick[b][p]].box]],
                   probs_pred |-> [b \in 1..B |-> [p \in 1..P |-> SamplePreds[pick[b][p]].probs]],
                   top_k |-> DefaultTopK, cls_thresh |-> cls_thresh,
                   nms_thresh |-> Fin(1, 2)]

Init ==
  InitIoU \/ InitMatch \/ InitNms \/ InitDecode \/ InitDecodeBatch \/ InitDetect

IoUCall ==
  /\ pc = "call"
  /\ fn = "IoU_np"
  /\ ret' = IoU_np(args.box_a, args.box_b)
  /\ pc' = "done"
  /\ UNCHANGED <<fn, args, exc>>

MatchCall ==
  /\ pc = "call"
  /\ fn = "match_np"
  /\ LET r == match_np(args.pos_threshold, args.ground_truths,
                       args.priors_boxes, args.labels)
     IN ret' = r /\ exc' = r.raised
  /\ pc' = "done"
  /\ UNCHANGED <<fn, args>>

NmsCall ==
  /\ pc = "call"
  /\ fn = "nms_np"
  /\ \E argsort \in ArgSorts(args.scores) :
       ret' = nms_np(args.boxes, args.scores, args.overlap, args.top_k, argsort)
  /\ pc' = "done"
  /\ UNCHANGED <<fn, args, exc>>

DecodeCall ==
  /\ pc = "call"
  /\ fn = "decode_np"
  /\ ret' = decode_np(args.loc, args.priors)
  /\ pc' = "done"
  /\ UNCHANGED <<fn, args, exc>>

DecodeBatchCall ==
  /\ pc = "call"
  /\ fn = "decode_batch_np"
  /\ LET r == decode_batch_np(args.loc, args.priors)
     IN ret' = r /\ exc' = r.raised
  /\ pc' = "done"
  /\ UNCHANGED <<fn, args>>

DetectCall ==
  /\ pc = "call"
  /\ fn = "detect_np"
  /\ \E r \in detect_np(args.boxes_pred, args.probs_pred, args.top_k,
                        args.cls_thresh, args.nms_thresh) :
       ret' = r.batch_result /\ exc' = r.raised
  /\ pc' = "done"
  /\ UNCHANGED <<fn, args>>

Next ==
  IoUCall \/ MatchCall \/ NmsCall \/ DecodeCall \/ DecodeBatchCall \/ DetectCall

Spec == Init /\ [][Next]_vars

SpecIoU == InitIoU /\ [][IoUCall]_vars

SpecMatch == InitMatch /\ [][MatchCall]_vars

SpecNms == InitNms /\ [][NmsCall]_vars

NextDecode == DecodeCall \/ DecodeBatchCall

SpecDecode == (InitDecode \/ InitDecodeBatch) /\ [][NextDecode]_vars

SpecDetect == InitDetect /\ [][DetectCall]_vars

(***************************************************************************)
(* Properties.                                                             *)
(***************************************************************************)
NmsDone == pc = "done" /\ fn = "nms_np"

MatchDone == pc = "done" /\ fn = "match_np"

IoUDone == pc = "done" /\ fn = "IoU_np"

DecodeBatchDone == pc = "done" /\ fn = "decode_batch_np"

DetectDone == pc = "done" /\ fn = "detect_np"

\* IoU of two corner-form boxes
PairIoU(a, b) == IoU_np(<<a>>, <<b>>)[1][1]

Distinct(s) == \A i, j \in 1..Len(s) : s[i] = s[j] => i = j

\* the ground truths whose best-overlapping prior is prior p
ForcedBy(a, p) ==
  LET overlaps == IoU_np(a.ground_truths, xywh_to_xyxy_np(a.priors_boxes))
  IN {k \in 1..Len(a.ground_truths) : ArgMax(overlaps[k]) = p}

\* the best overlap of prior p over the ground truths
BestOverlap(a, p) ==
  AMax(Column(IoU_np(a.ground_truths, xywh_to_xyxy_np(a.priors_boxes)), p))

SetMax(S) == CHOOSE x \in S : \A y \in S : y <= x

\* C1: with N >= 2 boxes of distinct scores, the first box nms_np keeps is
\* the highest-scoring input box and the returned scores are descending.
C1_HighestScoreFirst ==
  (NmsDone /\ Len(args.boxes) >= 2 /\ Distinct(args.scores)) =>
     /\ \A i \in 1..Len(args.scores) : args.scores[i] <= ret.scores[1]
     /\ \A j \in 1..(Len(ret.scores) - 1) : ret.scores[j] > ret.scores[j + 1]

\* C2: nms_np never returns more than top_k boxes, and its count never
\* exceeds top_k.
C2_AtMostTopK ==
  NmsDone => (ret.count <= args.top_k /\ Len(ret.boxes) <= args.top_k)

\* C3: for every ground truth k, the prior with the highest IoU against k is
\* matched to k and labelled labels[k] + 1, whatever the threshold in [0,1].
C3_BestPriorMatchedToItsGT ==
  (MatchDone /\ exc = "none") =>
     \A p \in 1..Len(args.priors_boxes) :
       \A k \in ForcedBy(args, p) :
         ret.best_gt_idx[p] = k /\ ret.cls[p] = args.labels[k] + 1

\* C4: IoU_np returns a defined value in [0,1] for every pair of valid
\* corner-form boxes, and 0 (not NaN or Infinity) where the union is zero.
C4_IoUDefined ==
  IoUDone =>
     \A i \in 1..Len(args.box_a) : \A j \in 1..Len(args.box_b) :
       /\ ret[i][j].k = "fin"
       /\ ~FLess(ret[i][j], FInt(0))
       /\ ~FLess(FInt(1), ret[i][j])
       /\ (Area(args.box_a[i]) + Area(args.box_b[j])
             - Inter(args.box_a[i], args.box_b[j]) = 0) => ret[i][j] = FInt(0)

\* C5: decode_batch_np returns, for every image b of the batch, the boxes
\* decode_np returns for loc[b] and priors[b].
C5_BatchDecodesEachImage ==
  DecodeBatchDone =>
     /\ exc = "none"
     /\ Len(ret.boxes) = Len(args.loc)
     /\ \A b \in 1..Len(args.loc) :
          ret.boxes[b] = decode_np(args.loc[b], args.priors[b])

\* C6: with no ground truth, match_np raises nothing and labels every prior
\* background.
C6_EmptyGTAllBackground ==
  (MatchDone /\ Len(args.ground_truths) = 0) =>
     /\ exc = "none"
     /\ \A p \in 1..Len(args.priors_boxes) : ret.cls[p] = 0

Survives(row, cls_thresh) ==
  \E c \in 2..Len(row) :
    /\ \A e \in 1..Len(row) : row[e] <= row[c]
    /\ row[1] < row[c]
    /\ row[c] > cls_thresh

\* C8: detect_np raises nothing and returns one entry per image, in image
\* order; the entry is None exactly when no prior of the image passes the
\* filter, and a non-empty array otherwise; an entry is the one its image
\* gets when it is alone in the batch.
C8_OneEntryPerImage ==
  DetectDone =>
     /\ exc = "none"
     /\ Len(ret) = Len(args.probs_pred)
     /\ \A i \in 1..Len(args.probs_pred) :
          /\ ret[i].none <=>
                ~\E p \in 1..Len(args.probs_pred[i]) :
                    Survives(args.probs_pred[i][p], args.cls_thresh)
          /\ ret[i].none => ret[i].rows = <<>>
          /\ ~ret[i].none => Len(ret[i].rows) >= 1
          /\ [raised |-> "none", batch_result |-> <<ret[i]>>]
                \in detect_np(<<args.boxes_pred[i]>>, <<args.probs_pred[i]>>,
                              args.top_k, args.cls_thresh, args.nms_thresh)

\* C8 witness: an image whose only prior above the threshold is background
\* gets None, the image after it gets its detections
C8_Witness ==
  /\ DetectDone
  /\ exc = "none"
  /\ Len(ret) = 2
  /\ ret[1].none
  /\ \E p \in 1..Len(args.probs_pred[1]) :
       MaxProb(args.probs_pred[1][p]) > args.cls_thresh
  /\ ~ret[2].none
  /\ Len(ret[2].rows) = 2

\* C9: a prior is labelled (label of its matched ground truth + 1) if it is
\* a forced match or its best IoU is >= the threshold, and 0 exactly when its
\* best IoU is below the threshold and it is no ground truth's best prior;
\* the labels are in 0..N, one per prior.
C9_ClassLabels ==
  (MatchDone /\ exc = "none") =>
     /\ Len(ret.cls) = Len(args.priors_boxes)
     /\ \A p \in 1..Len(args.priors_boxes) :
          LET forced == ForcedBy(args, p)
              best == BestOverlap(args, p)
              below == FLess(best, args.pos_threshold)
              atleast == ~IsNaN(best) /\ ~below
              bestgt == ArgMax(Column(IoU_np(args.ground_truths,
                                             xywh_to_xyxy_np(args.priors_boxes)), p))
          IN /\ ret.cls[p] \in {0} \cup {args.labels[k] + 1 : k \in 1..Len(args.labels)}
             /\ (forced # {}) =>
                   \E k \in forced : ret.cls[p] = args.labels[k] + 1
             /\ (forced = {} /\ atleast) => ret.cls[p] = args.labels[bestgt] + 1
             /\ (ret.cls[p] = 0) <=> (below /\ forced = {})

\* C9 witness: one prior forced although its overlap is below the threshold,
\* another one left as background
C9_Witness ==
  /\ MatchDone
  /\ exc = "none"
  /\ \E p, q \in 1..Len(args.priors_boxes) :
       /\ ForcedBy(args, p) # {}
       /\ FLess(BestOverlap(args, p), args.pos_threshold)
       /\ ret.cls[p] > 0
       /\ ForcedBy(args, q) = {}
       /\ ret.cls[q] = 0

PredictedClass(row) ==
  CHOOSE c \in 0..(Len(row) - 1) :
    /\ \A e \in 1..Len(row) : row[e] <= row[c + 1]
    /\ \A e \in 1..c : row[e] < row[c + 1]

\* the row a prior with this box and these probabilities is emitted as
DetectionRow(box, row) ==
  <<Clip01(box[1]), Clip01(box[2]), Clip01(box[3]), Clip01(box[4]),
    row[PredictedClass(row) + 1], PredictedClass(row) - 1>>

\* C11: every row detect_np emits for image i is the row of a prior of image
\* i whose maximum probability is strictly above cls_thresh and whose class
\* c is not the background: that prior's box clipped to [0,1], its maximum
\* probability, and c - 1. NMS is per class: a prior that passes the filter
\* and has no row is overlapped (IoU not below nms_thresh) by an emitted
\* prior of its own class, whatever boxes of other classes lie on it.
C11_RowsFromSurvivorsPerClassNms ==
  (DetectDone /\ exc = "none") =>
     \A i \in 1..Len(ret) :
       LET boxes == args.boxes_pred[i]
           probs == args.probs_pred[i]
           rows == Range(ret[i].rows)
           passing == {p \in 1..Len(probs) : Survives(probs[p], args.cls_thresh)}
       IN /\ \A r \in rows :
               \E p \in passing :
                 /\ probs[p][PredictedClass(probs[p]) + 1] > args.cls_thresh
                 /\ PredictedClass(probs[p]) > 0
                 /\ r = DetectionRow(boxes[p], probs[p])
          /\ \A p \in passing :
               \/ DetectionRow(boxes[p], probs[p]) \in rows
               \/ \E q \in passing :
                    /\ PredictedClass(probs[q]) = PredictedClass(probs[p])
                    /\ DetectionRow(boxes[q], probs[q]) \in rows
                    /\ ~FLess(PairIoU(boxes[p], boxes[q]), args.nms_thresh)

\* C11 witness: two priors of different classes whose boxes overlap by
\* nms_thresh or more are both emitted, one of them with a clipped corner
C11_Witness ==
  /\ DetectDone
  /\ exc = "none"
  /\ \E i \in 1..Len(ret) :
       \E p, q \in 1..Len(args.probs_pred[i]) :
         LET boxes == args.boxes_pred[i]
             probs == args.probs_pred[i]
         IN /\ Survives(probs[p], args.cls_thresh)
            /\ Survives(probs[q], args.cls_thresh)
            /\ PredictedClass(probs[p]) # PredictedClass(probs[q])
            /\ ~FLess(PairIoU(boxes[p], boxes[q]), args.nms_thresh)
            /\ Len(ret[i].rows) = 2
            /\ DetectionRow(boxes[p], probs[p]) \in Range(ret[i].rows)
            /\ DetectionRow(boxes[q], probs[q]) \in Range(ret[i].rows)
            /\ \E e \in 1..4 : boxes[q][e] < 0

============================================================================
